---- MODULE Spec2Model ----
(***************************************************************************)
(* The adoption model of market_network.ipynb: ConsumerAgent and           *)
(* MarketModel, driven by the simulation loop the notebook documents       *)
(* (setup, update, then step/update once per time step, then end).         *)
(*                                                                         *)
(* Probabilities are kept in hundredths (0.01 is 1, 1.0 is 100).  A value  *)
(* returned by random() is raw/RawRes with raw in 0..RawRes-1.             *)
(***************************************************************************)
EXTENDS Integers, Sequences, FiniteSets, TLC

\* ------------------------------------------------------------- bounds
MaxAgents == 4
MaxSteps == 2
RawRes == 3
MaxSeed == 1
MaxContacts == 2

\* ------------------------------------------------- program constants
AD_EFFECTIVENESS == 1
ADOPTION_FRACTION == 1
CONTACT_RATE == 1
SEED == 1
N_NEIGHBORS == 2

VARIABLES
    pc,               \* where the run is: "init", "update", "step", "end", "done", "error"
    p,                \* the parameters of the run (self.p)
    graph,            \* the edges of the contact graph, each a set {u, v}
    neighbors,        \* agent -> its list of neighbours
    ad_effectiveness, \* agent -> probability in hundredths
    adoption_fraction,
    contact_rate,
    become_adopter,   \* agent -> BOOLEAN
    is_adopter,       \* agent -> BOOLEAN
    n_adopters,       \* the model's counter
    t,                \* the model's time step
    idx,              \* position of AgentList.step / AgentList.update in the list
    records,          \* what record('n_adopters') has logged: <<t, n_adopters>>
    final,            \* what end() has logged: the is_adopter vector, or <<>>
    rng,              \* state of model.random as seeded from p.seed
    snapshot,         \* history: is_adopter when the current step() began
    n_step,           \* history: agent -> number of its step() calls
    n_update,         \* history: agent -> number of its update() calls
    calls,            \* history: number of MarketModel.step / update / end calls
    visited,          \* history: the agents whose step() has run in this tick
    expected,         \* history: the agents this tick's outcomes make pending
    first,            \* output of the previous run of the same model, or <<>>
    pending,          \* history: the agents with become_adopter set when the
                      \* latest step phase ended
    twice,            \* history, where the run keeps track of it: the agents
                      \* whose adopt() has succeeded more than once in this tick
    chosen,           \* history, where the run keeps track of it: agent -> the
                      \* partners it picked in its latest step()
    draws             \* history, where the run keeps track of it: agent -> the
                      \* number of values it took from model.random in its
                      \* latest step()

vars == <<pc, p, graph, neighbors, ad_effectiveness, adoption_fraction,
          contact_rate, become_adopter, is_adopter, n_adopters, t, idx,
          records, final, rng, snapshot, n_step, n_update, calls, visited,
          expected, first, pending, twice, chosen, draws>>

agentVars == <<ad_effectiveness, adoption_fraction, contact_rate>>
netVars == <<graph, neighbors>>

\* ------------------------------------------------------------ helpers
Agents == 0 .. (p.n_agents - 1)

Raws == 0 .. (RawRes - 1)

\* A variant of the test: random() <= probability.
BelowOrEqual(raw, probability) == 100 * raw <= probability * RawRes

\* random() < probability, with random() = raw/RawRes and probability in hundredths
Below(raw, probability) == 100 * raw < probability * RawRes

\* random.choice(list): the entry at floor(random() * len(list))
Choice(list, raw) == list[((raw * Len(list)) \div RawRes) + 1]

Min(S) == CHOOSE x \in S : \A y \in S : x <= y

RECURSIVE ToList(_)
ToList(S) == IF S = {} THEN <<>> ELSE <<Min(S)>> \o ToList(S \ {Min(S)})

Count(f) == Cardinality({i \in DOMAIN f : f[i]})

\* ------------------------------------------------- the contact graph
\* The ring lattice: every node u is joined to u+1 .. u+k/2 (mod n).
RingLattice(n, k) ==
    {{u, (u + j) % n} : u \in 0 .. (n - 1), j \in 1 .. (k \div 2)}

\* The rewiring sweep from edge number m on: edge m is (u, u+j) with
\* j = m \div n + 1 and u = m % n.  With probability prob (hundredths) the
\* edge is moved to (u, w) for some w that is neither u nor adjacent to u; when
\* no such w exists the edge stays.  The graph generator draws from its own
\* unseeded generator, so every outcome is possible.
RECURSIVE Rewire(_, _, _, _, _)
Rewire(G, n, k, prob, m) ==
    IF m >= n * (k \div 2) THEN {G}
    ELSE LET u == m % n
             v == (u + (m \div n) + 1) % n
             free == {w \in 0 .. (n - 1) : w # u /\ {u, w} \notin G}
             kept == Rewire(G, n, k, prob, m + 1)
             moved == UNION {Rewire((G \ {{u, v}}) \cup {{u, w}}, n, k, prob, m + 1)
                                : w \in free}
         IN  (IF prob < 100 \/ free = {} THEN kept ELSE {})
                 \cup (IF prob > 0 THEN moved ELSE {})

watts_strogatz_graph(n, k, prob) == Rewire(RingLattice(n, k), n, k, prob, 0)

NeighborList(G, i) == ToList({j \in Agents : {i, j} \in G /\ j # i})

\* --------------------------------------------------- ConsumerAgent
\* The state of the agents that step, adopt and update read and write.
AgentState == [is_adopter |-> is_adopter, become_adopter |-> become_adopter]

\* A variant of adopt that makes the agent an adopter at once.
AdoptAtOnce(st, j, probability, raw) ==
    IF Below(raw, probability)
    THEN [st EXCEPT !.is_adopter[j] = TRUE]
    ELSE st

\* A variant of adopt that flips the flag.
AdoptToggles(st, j, probability, raw) ==
    IF Below(raw, probability)
    THEN [st EXCEPT !.become_adopter[j] = ~@]
    ELSE st

Adopt(st, j, probability, raw) ==
    IF Below(raw, probability)
    THEN [st EXCEPT !.become_adopter[j] = TRUE]
    ELSE st

\* A variant of the loop in which a contact reaches every neighbour that is
\* not an adopter.
RECURSIVE ContactsBroadcast(_, _, _, _, _)
ContactsBroadcast(st, i, c, raws, k) ==
    IF c = 0 THEN [st |-> st, used |-> k]
    ELSE LET hit == {j \in Agents : /\ {i, j} \in graph
                                    /\ ~st.is_adopter[j]
                                    /\ Below(raws[k + 2], adoption_fraction[j])}
         IN  ContactsBroadcast(
                 [st EXCEPT !.become_adopter = [j \in Agents |-> @[j] \/ j \in hit]],
                 i, c - 1, raws, k + 2)

\* A variant of the loop that calls adopt with the adopter's own
\* adoption_fraction.
RECURSIVE ContactsOwnFraction(_, _, _, _, _)
ContactsOwnFraction(st, i, c, raws, k) ==
    IF c = 0 THEN [st |-> st, used |-> k]
    ELSE LET partner == Choice(neighbors[i], raws[k + 1])
         IN  IF ~st.is_adopter[partner]
             THEN ContactsOwnFraction(Adopt(st, partner, adoption_fraction[i], raws[k + 2]),
                                      i, c - 1, raws, k + 2)
             ELSE ContactsOwnFraction(st, i, c - 1, raws, k + 1)

\* A variant of the loop that picks the partner among all the agents.
RECURSIVE ContactsAnyAgent(_, _, _, _, _)
ContactsAnyAgent(st, i, c, raws, k) ==
    IF c = 0 THEN [st |-> st, used |-> k]
    ELSE LET partner == Choice(ToList(Agents), raws[k + 1])
         IN  IF ~st.is_adopter[partner]
             THEN ContactsAnyAgent(Adopt(st, partner, adoption_fraction[partner], raws[k + 2]),
                                   i, c - 1, raws, k + 2)
             ELSE ContactsAnyAgent(st, i, c - 1, raws, k + 1)

\* A variant of the loop that calls adopt on the partner whether or not the
\* partner is an adopter.
RECURSIVE ContactsAnyPartner(_, _, _, _, _)
ContactsAnyPartner(st, i, c, raws, k) ==
    IF c = 0 THEN [st |-> st, used |-> k]
    ELSE LET partner == Choice(neighbors[i], raws[k + 1])
         IN  ContactsAnyPartner(Adopt(st, partner, adoption_fraction[partner], raws[k + 2]),
                                i, c - 1, raws, k + 2)

\* The loop of an adopter's step: c contacts left, k draws consumed so far.
RECURSIVE Contacts(_, _, _, _, _)
Contacts(st, i, c, raws, k) ==
    IF c = 0 THEN [st |-> st, used |-> k]
    ELSE LET partner == Choice(neighbors[i], raws[k + 1])
         IN  IF ~st.is_adopter[partner]
             THEN Contacts(Adopt(st, partner, adoption_fraction[partner], raws[k + 2]),
                           i, c - 1, raws, k + 2)
             ELSE Contacts(st, i, c - 1, raws, k + 1)

\* A variant of step in which an agent whose flag is already set behaves as
\* an adopter.
StepSeesPending(st, i, raws) ==
    IF st.is_adopter[i] \/ st.become_adopter[i]
    THEN Contacts(st, i, contact_rate[i], raws, 0)
    ELSE [st |-> Adopt(st, i, ad_effectiveness[i], raws[1]), used |-> 1]

\* A variant of step that makes the contacts whether or not the agent is an
\* adopter.
StepAlwaysContacts(st, i, raws) == Contacts(st, i, contact_rate[i], raws, 0)

\* A variant of step whose loop makes one contact less.
StepOneContactLess(st, i, raws) ==
    IF st.is_adopter[i]
    THEN Contacts(st, i, contact_rate[i] - 1, raws, 0)
    ELSE [st |-> Adopt(st, i, ad_effectiveness[i], raws[1]), used |-> 1]

ConsumerAgentStep(st, i, raws) ==
    IF st.is_adopter[i]
    THEN Contacts(st, i, contact_rate[i], raws, 0)
    ELSE [st |-> Adopt(st, i, ad_effectiveness[i], raws[1]), used |-> 1]

\* What the draws raws of agent i's step() make pending when every test of
\* is_adopter reads snap: the targets of an adopter's contacts ...
RECURSIVE Targets(_, _, _, _, _)
Targets(snap, i, c, raws, k) ==
    IF c = 0 THEN {}
    ELSE LET partner == Choice(neighbors[i], raws[k + 1])
         IN  IF ~snap[partner]
             THEN (IF Below(raws[k + 2], adoption_fraction[partner])
                   THEN {partner} ELSE {})
                      \cup Targets(snap, i, c - 1, raws, k + 2)
             ELSE Targets(snap, i, c - 1, raws, k + 1)

\* ... or a non-adopter itself.
Outcome(snap, i, raws) ==
    IF snap[i] THEN Targets(snap, i, contact_rate[i], raws, 0)
    ELSE IF Below(raws[1], ad_effectiveness[i]) THEN {i} ELSE {}

\* The partners an adopter's loop picks with the draws raws, in order.
RECURSIVE Picks(_, _, _, _, _)
Picks(st, i, c, raws, k) ==
    IF c = 0 THEN <<>>
    ELSE LET partner == Choice(neighbors[i], raws[k + 1])
         IN  <<partner>> \o Picks(st, i, c - 1, raws,
                                  IF ~st.is_adopter[partner] THEN k + 2 ELSE k + 1)

Picked(st, i, raws) ==
    IF st.is_adopter[i] THEN Picks(st, i, contact_rate[i], raws, 0) ELSE <<>>

\* The most draws one step() of agent i can consume: one for a non-adopter,
\* a choice and a sample per contact for an adopter.
DrawsOf(i) == IF 2 * contact_rate[i] > 1 THEN 2 * contact_rate[i] ELSE 1

\* A variant of update that makes the agent an adopter outside the test of
\* the flag.
UpdatePromotesAll(st, n, i) ==
    IF st.become_adopter[i]
    THEN [st |-> [is_adopter |-> [st.is_adopter EXCEPT ![i] = TRUE],
                  become_adopter |-> [st.become_adopter EXCEPT ![i] = FALSE]],
          n |-> n + 1]
    ELSE [st |-> [is_adopter |-> [st.is_adopter EXCEPT ![i] = TRUE],
                  become_adopter |-> st.become_adopter],
          n |-> n]

\* A variant of update that counts outside the test of the flag.
UpdateCountsAlways(st, n, i) ==
    IF st.become_adopter[i]
    THEN [st |-> [is_adopter |-> [st.is_adopter EXCEPT ![i] = TRUE],
                  become_adopter |-> [st.become_adopter EXCEPT ![i] = FALSE]],
          n |-> n + 1]
    ELSE [st |-> st, n |-> n + 1]

\* A variant of update that counts down.
UpdateCountsDown(st, n, i) ==
    IF st.become_adopter[i]
    THEN [st |-> [is_adopter |-> [st.is_adopter EXCEPT ![i] = TRUE],
                  become_adopter |-> [st.become_adopter EXCEPT ![i] = FALSE]],
          n |-> n - 1]
    ELSE [st |-> st, n |-> n]

\* A variant of update that leaves the flag set.
UpdateKeepsFlag(st, n, i) ==
    IF st.become_adopter[i]
    THEN [st |-> [is_adopter |-> [st.is_adopter EXCEPT ![i] = TRUE],
                  become_adopter |-> st.become_adopter],
          n |-> n + 1]
    ELSE [st |-> st, n |-> n]

\* A variant of update that copies the flag into is_adopter.
UpdateCopiesFlag(st, n, i) ==
    [st |-> [is_adopter |-> [st.is_adopter EXCEPT ![i] = st.become_adopter[i]],
             become_adopter |-> [st.become_adopter EXCEPT ![i] = FALSE]],
     n |-> IF st.become_adopter[i] THEN n + 1 ELSE n]

ConsumerAgentUpdate(st, n, i) ==
    IF st.become_adopter[i]
    THEN [st |-> [is_adopter |-> [st.is_adopter EXCEPT ![i] = TRUE],
                  become_adopter |-> [st.become_adopter EXCEPT ![i] = FALSE]],
          n |-> n + 1]
    ELSE [st |-> st, n |-> n]

\* -------------------------------------------------------- MarketModel
Parameters ==
    [seed : {SEED},
     steps : 1 .. MaxSteps,
     n_agents : 3 .. MaxAgents,
     n_neighbors : {N_NEIGHBORS},
     network_randomness : {0, 50}]

\* The same parameters with any seed.
SeededParameters ==
    [seed : 0 .. MaxSeed,
     steps : 1 .. MaxSteps,
     n_agents : 3 .. MaxAgents,
     n_neighbors : {N_NEIGHBORS},
     network_randomness : {0, 50}]

\* model.random is Python's generator seeded with p.seed: what it returns is a
\* fixed function of the seed and of the number of draws made so far.  A
\* small linear congruential generator stands for it.
Seeded(seed) == (5 * seed + 12) % 16

NextRng(x) == (5 * x + 3) % 16

RawOf(x) == x % RawRes

\* The next n values the generator in state x returns.
RECURSIVE Stream(_, _)
Stream(x, n) == IF n = 0 THEN <<>> ELSE <<RawOf(x)>> \o Stream(NextRng(x), n - 1)

\* The generator's state after n draws.
RECURSIVE Advance(_, _)
Advance(x, n) == IF n = 0 THEN x ELSE Advance(NextRng(x), n - 1)

\* The model object as constructed from the parameters P, before run().
InitWith(P) ==
    /\ pc = "init"
    /\ p \in P
    /\ graph = {}
    /\ neighbors = <<>>
    /\ ad_effectiveness = <<>>
    /\ adoption_fraction = <<>>
    /\ contact_rate = <<>>
    /\ become_adopter = <<>>
    /\ is_adopter = <<>>
    /\ n_adopters = 0
    /\ t = 0
    /\ idx = 0
    /\ records = <<>>
    /\ final = <<>>
    /\ rng = Seeded(p.seed)
    /\ snapshot = <<>>
    /\ n_step = <<>>
    /\ n_update = <<>>
    /\ calls = [step |-> 0, update |-> 0, end |-> 0]
    /\ visited = {}
    /\ expected = {}
    /\ first = <<>>
    /\ pending = {}
    /\ twice = {}
    /\ chosen = <<>>
    /\ draws = <<>>

Init == InitWith(Parameters)

InitSeeded == InitWith(SeededParameters)

\* MarketModel.setup, run at t = 0; update() follows it.
Setup ==
    /\ pc = "init"
    /\ \E G \in watts_strogatz_graph(p.n_agents, p.n_neighbors, p.network_randomness) :
          /\ graph' = G
          /\ neighbors' = [i \in Agents |-> NeighborList(G, i)]
    /\ n_adopters' = 0
    /\ ad_effectiveness' = [i \in Agents |-> AD_EFFECTIVENESS]
    /\ adoption_fraction' = [i \in Agents |-> ADOPTION_FRACTION]
    /\ contact_rate' = [i \in Agents |-> CONTACT_RATE]
    /\ become_adopter' = [i \in Agents |-> FALSE]
    /\ is_adopter' = [i \in Agents |-> FALSE]
    /\ snapshot' = [i \in Agents |-> FALSE]
    /\ n_step' = [i \in Agents |-> 0]
    /\ n_update' = [i \in Agents |-> 0]
    /\ t' = 0
    /\ idx' = 0
    /\ rng' = Seeded(p.seed)
    /\ pc' = "update"
    /\ UNCHANGED <<p, records, final, calls, visited, expected, first, pending,
                   twice, chosen, draws>>

\* MarketModel.step returns once AgentList.step has visited every agent.
StepReturns(count) == count = p.n_agents

\* A variant of the agents' step in which every agent commits at once: its
\* step() is followed by its own update().
StepThenUpdate(i, raws) ==
    LET r == ConsumerAgentStep(AgentState, i, raws)
        u == ConsumerAgentUpdate(r.st, n_adopters, i)
    IN  /\ is_adopter' = u.st.is_adopter
        /\ become_adopter' = u.st.become_adopter
        /\ n_adopters' = u.n
        /\ n_step' = [n_step EXCEPT ![i] = @ + 1]
        /\ n_update' = [n_update EXCEPT ![i] = @ + 1]
        /\ visited' = visited \cup {i}
        /\ expected' = expected \cup Outcome(snapshot, i, raws)
        /\ IF StepReturns(idx + 1)
           THEN /\ pc' = "update"
                /\ idx' = 0
                /\ calls' = [calls EXCEPT !.step = @ + 1]
                /\ pending' = {j \in Agents : become_adopter'[j]}
           ELSE /\ idx' = idx + 1
                /\ UNCHANGED <<pc, calls, pending>>
        /\ UNCHANGED <<p, netVars, agentVars, t, records, final, snapshot, first>>

\* The effect of agent i's step() with the draws raws, as the idx+1-th step()
\* of AgentList.step.
StepWith(i, raws) ==
    LET r == ConsumerAgentStep(AgentState, i, raws)
    IN  /\ is_adopter' = r.st.is_adopter
        /\ become_adopter' = r.st.become_adopter
        /\ n_step' = [n_step EXCEPT ![i] = @ + 1]
        /\ visited' = visited \cup {i}
        /\ expected' = expected \cup Outcome(snapshot, i, raws)
        /\ IF StepReturns(idx + 1)
           THEN /\ pc' = "update"
                /\ idx' = 0
                /\ calls' = [calls EXCEPT !.step = @ + 1]
                /\ pending' = {j \in Agents : become_adopter'[j]}
           ELSE /\ idx' = idx + 1
                /\ UNCHANGED <<pc, calls, pending>>
        /\ UNCHANGED <<p, netVars, agentVars, n_adopters, t, records, final,
                       snapshot, n_update, first>>

\* The draws raws are those agent i's step() makes: the ones it consumes are
\* free, and it makes no others (written as 0).
Drawn(i, raws) ==
    \A k \in (ConsumerAgentStep(AgentState, i, raws).used + 1) .. DrawsOf(i) :
        raws[k] = 0

\* MarketModel.step -> AgentList.step: the next agent's step().  Every value
\* model.random can return is allowed; the generator's state is not consulted.
AgentStep ==
    /\ pc = "step"
    /\ idx < p.n_agents
    /\ \E raws \in [1 .. DrawsOf(idx) -> Raws] :
          Drawn(idx, raws) /\ StepWith(idx, raws)
    /\ UNCHANGED <<rng, twice, chosen, draws>>

\* The next agent's step() with its draws taken from model.random.
SeededAgentStep ==
    /\ pc = "step"
    /\ idx < p.n_agents
    /\ LET raws == Stream(rng, DrawsOf(idx))
       IN  /\ StepWith(idx, raws)
           /\ rng' = Advance(rng, ConsumerAgentStep(AgentState, idx, raws).used)
    /\ UNCHANGED <<twice, chosen, draws>>

\* The same with the agents visited in any order: the next agent is any one
\* that has not made its step() in this tick.
AgentStepAnyOrder ==
    /\ pc = "step"
    /\ \E i \in Agents \ visited :
          \E raws \in [1 .. DrawsOf(i) -> Raws] :
              Drawn(i, raws) /\ StepWith(i, raws)
    /\ UNCHANGED <<rng, twice, chosen, draws>>

\* MarketModel.update -> AgentList.update: the next agent's update().
AgentUpdate ==
    /\ pc = "update"
    /\ idx < p.n_agents
    /\ LET r == ConsumerAgentUpdate(AgentState, n_adopters, idx)
       IN  /\ is_adopter' = r.st.is_adopter
           /\ become_adopter' = r.st.become_adopter
           /\ n_adopters' = r.n
    /\ n_update' = [n_update EXCEPT ![idx] = @ + 1]
    /\ idx' = idx + 1
    /\ UNCHANGED <<pc, p, netVars, agentVars, t, records, final, rng, snapshot,
                   n_step, calls, visited, expected, first, pending, twice,
                   chosen, draws>>

\* Variants of the stop test: one round late, one round early.
StopsLate(now, steps) == now > steps

StopsEarly(now, steps) == now + 1 >= steps

\* The simulation stops once the time step has reached the step budget.
Stops(now, steps) == now >= steps

\* A variant of record that has the graph generated anew for every time step.
RecordRegrows ==
    /\ pc = "update"
    /\ idx = p.n_agents
    /\ records' = Append(records, <<t, n_adopters>>)
    /\ calls' = [calls EXCEPT !.update = @ + 1]
    /\ idx' = 0
    /\ IF Stops(t, p.steps)
       THEN /\ pc' = "end"
            /\ UNCHANGED <<t, snapshot, visited, expected, pending, twice, netVars>>
       ELSE /\ pc' = "step"
            /\ \E G \in watts_strogatz_graph(p.n_agents, p.n_neighbors,
                                             p.network_randomness) :
                  /\ graph' = G
                  /\ neighbors' = [i \in Agents |-> NeighborList(G, i)]
            /\ t' = t + 1
            /\ snapshot' = is_adopter
            /\ visited' = {}
            /\ expected' = {}
            /\ pending' = {}
            /\ twice' = {}
    /\ UNCHANGED <<p, agentVars, become_adopter, is_adopter, n_adopters,
                   final, rng, n_step, n_update, first, chosen, draws>>

\* MarketModel.update after AgentList.update: record('n_adopters'); then the
\* simulation loop either stops or starts the next time step.
Record ==
    /\ pc = "update"
    /\ idx = p.n_agents
    /\ records' = Append(records, <<t, n_adopters>>)
    /\ calls' = [calls EXCEPT !.update = @ + 1]
    /\ idx' = 0
    /\ IF Stops(t, p.steps)
       THEN /\ pc' = "end"
            /\ UNCHANGED <<t, snapshot, visited, expected, pending, twice>>
       ELSE /\ pc' = "step"
            /\ t' = t + 1
            /\ snapshot' = is_adopter
            /\ visited' = {}
            /\ expected' = {}
            /\ pending' = {}
            /\ twice' = {}
    /\ UNCHANGED <<p, netVars, agentVars, become_adopter, is_adopter, n_adopters,
                   final, rng, n_step, n_update, first, chosen, draws>>

\* A variant of end in which every agent records its become_adopter.
EndRecordsPending ==
    /\ pc = "end"
    /\ final' = become_adopter
    /\ calls' = [calls EXCEPT !.end = @ + 1]
    /\ pc' = "done"
    /\ UNCHANGED <<p, netVars, agentVars, become_adopter, is_adopter, n_adopters,
                   t, idx, records, rng, snapshot, n_step, n_update, visited,
                   expected, first, pending, twice, chosen, draws>>

\* MarketModel.end: every agent records its is_adopter.
End ==
    /\ pc = "end"
    /\ final' = is_adopter
    /\ calls' = [calls EXCEPT !.end = @ + 1]
    /\ pc' = "done"
    /\ UNCHANGED <<p, netVars, agentVars, become_adopter, is_adopter, n_adopters,
                   t, idx, records, rng, snapshot, n_step, n_update, visited,
                   expected, first, pending, twice, chosen, draws>>

\* A second run of the model with the same parameters, as the notebook makes
\* with MarketModel(parameters).run(): the first run's output is kept for
\* comparison and a fresh model object is constructed.
Rerun ==
    /\ pc = "done"
    /\ first = <<>>
    /\ first' = [records |-> records, final |-> final]
    /\ pc' = "init"
    /\ graph' = {}
    /\ neighbors' = <<>>
    /\ ad_effectiveness' = <<>>
    /\ adoption_fraction' = <<>>
    /\ contact_rate' = <<>>
    /\ become_adopter' = <<>>
    /\ is_adopter' = <<>>
    /\ n_adopters' = 0
    /\ t' = 0
    /\ idx' = 0
    /\ records' = <<>>
    /\ final' = <<>>
    /\ rng' = Seeded(p.seed)
    /\ snapshot' = <<>>
    /\ n_step' = <<>>
    /\ n_update' = <<>>
    /\ calls' = [step |-> 0, update |-> 0, end |-> 0]
    /\ visited' = {}
    /\ expected' = {}
    /\ pending' = {}
    /\ twice' = {}
    /\ chosen' = <<>>
    /\ draws' = <<>>
    /\ UNCHANGED p

\* self.neighbors.random() picks an entry of the agent's neighbour list.  On
\* an empty list there is nothing to pick and the call raises: an adopter with
\* at least one contact to make and no neighbour cannot finish its step().
StepRaises(i) == is_adopter[i] /\ contact_rate[i] > 0 /\ neighbors[i] = <<>>

\* The next agent's step() when it returns.
AgentStepReturns ==
    /\ pc = "step"
    /\ idx < p.n_agents
    /\ ~StepRaises(idx)
    /\ AgentStep

\* The next agent's step() when it raises: the exception leaves run(), and
\* nothing further is called on the model.
AgentStepRaises ==
    /\ pc = "step"
    /\ idx < p.n_agents
    /\ StepRaises(idx)
    /\ pc' = "error"
    /\ UNCHANGED <<p, netVars, agentVars, become_adopter, is_adopter, n_adopters,
                   t, idx, records, final, rng, snapshot, n_step, n_update,
                   calls, visited, expected, first, pending, twice, chosen,
                   draws>>

\* The probabilities 0 and 1.0.
Levels == {0, 100}

\* One tick on the ring lattice of the largest population.
ScenarioParameters ==
    [seed : {SEED},
     steps : {1},
     n_agents : {MaxAgents},
     n_neighbors : {N_NEIGHBORS},
     network_randomness : {0}]

InitScenario == InitWith(ScenarioParameters)

\* MarketModel.setup followed by assignments to the agents' attributes before
\* the run: each agent's ad_effectiveness and adoption_fraction is 0 or 1.0,
\* and the agents of pre are made adopters.  Nothing else is touched:
\* contact_rate is as setup leaves it, and n_adopters is 0.
ScenarioSetup ==
    /\ pc = "init"
    /\ \E G \in watts_strogatz_graph(p.n_agents, p.n_neighbors, p.network_randomness) :
          /\ graph' = G
          /\ neighbors' = [i \in Agents |-> NeighborList(G, i)]
    /\ n_adopters' = 0
    /\ ad_effectiveness' \in [Agents -> Levels]
    /\ adoption_fraction' \in [Agents -> Levels]
    /\ contact_rate' = [i \in Agents |-> CONTACT_RATE]
    /\ become_adopter' = [i \in Agents |-> FALSE]
    /\ \E pre \in SUBSET Agents :
          /\ is_adopter' = [i \in Agents |-> i \in pre]
          /\ snapshot' = [i \in Agents |-> i \in pre]
    /\ n_step' = [i \in Agents |-> 0]
    /\ n_update' = [i \in Agents |-> 0]
    /\ t' = 0
    /\ idx' = 0
    /\ rng' = Seeded(p.seed)
    /\ chosen' = [i \in Agents |-> <<>>]
    /\ draws' = [i \in Agents |-> 0]
    /\ pc' = "update"
    /\ UNCHANGED <<p, records, final, calls, visited, expected, first, pending,
                   twice>>

\* The next agent's step(), with track kept of the partners it picks and of
\* the agents whose adopt() succeeds when an earlier one of the tick has.
TrackedAgentStep ==
    /\ pc = "step"
    /\ idx < p.n_agents
    /\ \E raws \in [1 .. DrawsOf(idx) -> Raws] :
          /\ Drawn(idx, raws)
          /\ StepWith(idx, raws)
          /\ chosen' = [chosen EXCEPT ![idx] = Picked(AgentState, idx, raws)]
          /\ draws' = [draws EXCEPT ![idx] = ConsumerAgentStep(AgentState, idx, raws).used]
          /\ twice' = twice \cup (Outcome(is_adopter, idx, raws) \cap expected)
    /\ UNCHANGED rng

\* The same with the agents visited in any order.
TrackedAgentStepAnyOrder ==
    /\ pc = "step"
    /\ \E i \in Agents \ visited :
          \E raws \in [1 .. DrawsOf(i) -> Raws] :
              /\ Drawn(i, raws)
              /\ StepWith(i, raws)
              /\ chosen' = [chosen EXCEPT ![i] = Picked(AgentState, i, raws)]
              /\ draws' = [draws EXCEPT ![i] = ConsumerAgentStep(AgentState, i, raws).used]
              /\ twice' = twice \cup (Outcome(is_adopter, i, raws) \cap expected)
    /\ UNCHANGED rng

\* Runs on the ring lattice of the largest population.
ContactParameters ==
    [seed : {SEED},
     steps : 1 .. MaxSteps,
     n_agents : {MaxAgents},
     n_neighbors : {N_NEIGHBORS},
     network_randomness : {0}]

InitContact == InitWith(ContactParameters)

\* MarketModel.setup followed by assignments to the agents' attributes before
\* the run, for a run without advertisement: every agent's ad_effectiveness is
\* 0, its adoption_fraction is 0 or 1.0, the agents' contact_rate is one value
\* of 1 .. MaxContacts, and the agents of pre are made adopters.  Nothing else
\* is touched.
ContactSetup ==
    /\ pc = "init"
    /\ \E G \in watts_strogatz_graph(p.n_agents, p.n_neighbors, p.network_randomness) :
          /\ graph' = G
          /\ neighbors' = [i \in Agents |-> NeighborList(G, i)]
    /\ n_adopters' = 0
    /\ ad_effectiveness' = [i \in Agents |-> 0]
    /\ adoption_fraction' \in [Agents -> Levels]
    /\ \E rate \in 1 .. MaxContacts : contact_rate' = [i \in Agents |-> rate]
    /\ become_adopter' = [i \in Agents |-> FALSE]
    /\ \E pre \in SUBSET Agents :
          /\ is_adopter' = [i \in Agents |-> i \in pre]
          /\ snapshot' = [i \in Agents |-> i \in pre]
    /\ n_step' = [i \in Agents |-> 0]
    /\ n_update' = [i \in Agents |-> 0]
    /\ t' = 0
    /\ idx' = 0
    /\ rng' = Seeded(p.seed)
    /\ chosen' = [i \in Agents |-> <<>>]
    /\ draws' = [i \in Agents |-> 0]
    /\ pc' = "update"
    /\ UNCHANGED <<p, records, final, calls, visited, expected, first, pending,
                   twice>>

Next == Setup \/ AgentStep \/ AgentUpdate \/ Record \/ End

Spec == Init /\ [][Next]_vars

\* The run with the agents of a tick visited in any order.
NextAnyOrder == Setup \/ AgentStepAnyOrder \/ AgentUpdate \/ Record \/ End

SpecAnyOrder == Init /\ [][NextAnyOrder]_vars

\* Two runs of the model with the same parameters and seed, every draw of
\* model.random taken from the seeded generator.
NextSeeded == Setup \/ SeededAgentStep \/ AgentUpdate \/ Record \/ End \/ Rerun

SpecSeeded == InitSeeded /\ [][NextSeeded]_vars

\* The scheduler runs whatever is enabled until the run has stopped.
FairSpec == Spec /\ WF_vars(Next)

\* Parameters with fewer than two neighbours per agent.  setup() passes them
\* to the graph generator as it passes any others, and the generator joins
\* every node to its n_neighbors \div 2 nearest: the graph has no edge.
UncheckedParameters ==
    [seed : {SEED},
     steps : 1 .. MaxSteps,
     n_agents : 3 .. MaxAgents,
     n_neighbors : {0, 1},
     network_randomness : {0, 50}]

InitUnchecked == InitWith(UncheckedParameters)

NextUnchecked ==
    Setup \/ AgentStepReturns \/ AgentStepRaises \/ AgentUpdate \/ Record \/ End

\* The run of a model constructed from such parameters.
SpecUnchecked == InitUnchecked /\ [][NextUnchecked]_vars

NextScenario == ScenarioSetup \/ TrackedAgentStep \/ AgentUpdate \/ Record \/ End

\* One tick of a model whose agents' attributes were assigned before the run.
SpecScenario == InitScenario /\ [][NextScenario]_vars

NextContact == ContactSetup \/ TrackedAgentStep \/ AgentUpdate \/ Record \/ End

\* The run of a model without advertisement whose agents' attributes were
\* assigned before the run.
SpecContact == InitContact /\ [][NextContact]_vars

NextScenarioAnyOrder ==
    ScenarioSetup \/ TrackedAgentStepAnyOrder \/ AgentUpdate \/ Record \/ End

\* The same tick with the agents visited in any order.
SpecScenarioAnyOrder == InitScenario /\ [][NextScenarioAnyOrder]_vars

\* ------------------------------------------------------------- claims

\* C1: during phase 1 of a tick (every agent's step, with the adopt calls it
\* makes on itself or on a partner) no agent's is_adopter changes: in every
\* state of the step phase, and when the step phase has just ended, is_adopter
\* is what it was when the tick began.
C1_StepLeavesIsAdopter ==
    (pc = "step" \/ (pc = "update" /\ idx = 0)) => is_adopter = snapshot

\* C1 witness: a step phase has ended in which an adopter made its contact and
\* a pending flag was set.
C1_Witness ==
    /\ pc = "update" /\ idx = 0 /\ t >= 2
    /\ \E i \in DOMAIN snapshot : snapshot[i]
    /\ \E j \in DOMAIN become_adopter : become_adopter[j] /\ ~is_adopter[j]

\* C2: the commit is applied only after all agents have done their step of
\* the tick: an agent's update for tick t (its update number t+1, the first
\* being the one after setup) never precedes any agent's step for tick t, and
\* an agent's step for tick t+1 never precedes any agent's update for tick t.
C2_CommitAfterAllSteps ==
    \A i \in DOMAIN n_step : \A j \in DOMAIN n_update :
        /\ n_update[j] - 1 <= n_step[i]
        /\ n_step[i] <= n_update[j]

\* C2 witness: the commit of the second tick is under way.
C2_Witness ==
    /\ pc = "update" /\ t = 2 /\ idx >= 1
    /\ \A i \in DOMAIN n_step : n_step[i] = 2

\* C3: permuting the order in which the agents make their step within a tick
\* does not change the set of agents that become adopters in that tick: in
\* whichever order the agents have been visited, the agents with
\* become_adopter set are those that the visited agents' own outcomes make
\* pending when read against the tick-start snapshot, a set that does not
\* depend on the order.
C3_OrderIndependent ==
    (pc = "step" \/ (pc = "update" /\ idx = 0 /\ t >= 1))
        => {j \in DOMAIN become_adopter : become_adopter[j]} = expected

\* C3 witness: in a tick that began with an adopter, every agent but agent 0
\* has made its step, and a non-adopter next to an adopter is pending.
C3_Witness ==
    /\ pc = "step" /\ t >= 2
    /\ visited = Agents \ {0}
    /\ \E j \in expected : \E i \in visited :
            snapshot[i] /\ ~snapshot[j] /\ {i, j} \in graph

\* C4: is_adopter is write-once: no step of the run takes an agent's
\* is_adopter from true back to false.
C4_IsAdopterWriteOnce ==
    [][\A i \in DOMAIN is_adopter : is_adopter[i] => is_adopter'[i]]_vars

\* C4 witness: an agent that adopted in the first tick went through a later
\* step and update and is an adopter at the end of the run.
C4_Witness ==
    /\ pc = "done" /\ Len(records) >= 3 /\ records[2][2] >= 1
    /\ \E i \in DOMAIN is_adopter : is_adopter[i]

\* C5: every time n_adopters is recorded, it is the number of agents whose
\* is_adopter is true: when record is about to run, and in the entry it has
\* just logged.
C5_RecordedIsCount ==
    /\ (pc = "update" /\ idx = p.n_agents) => n_adopters = Count(is_adopter)
    /\ (pc \in {"step", "end"} /\ idx = 0)
          => records[Len(records)][2] = Count(is_adopter)

\* C5 witness: a record was just made with adopters and non-adopters present.
C5_Witness ==
    /\ pc \in {"step", "end"} /\ idx = 0
    /\ Count(is_adopter) >= 1
    /\ Count(is_adopter) < p.n_agents

\* C6: the recorded n_adopters sequence is non-decreasing.
C6_RecordsNonDecreasing ==
    \A k \in 1 .. (Len(records) - 1) : records[k][2] <= records[k + 1][2]

\* C6 witness: the recorded sequence has grown from one tick to the next.
C6_Witness ==
    \E k \in 1 .. (Len(records) - 1) : records[k][2] < records[k + 1][2]

\* C7: in every state of a run n_adopters is at least 0 and at most n_agents.
C7_CounterBounded == 0 <= n_adopters /\ n_adopters <= p.n_agents

\* C7 witness: every agent has adopted and a further tick has been committed.
C7_Witness ==
    /\ pc = "end" /\ n_adopters = p.n_agents
    /\ Len(records) >= 3 /\ records[Len(records) - 1][2] = p.n_agents

\* C8 as stated: a completed run with step budget steps has recorded exactly
\* steps entries, none of them from before the first decide phase.
C8_Original ==
    pc = "done" =>
        /\ Len(records) = p.steps
        /\ \A k \in 1 .. Len(records) : records[k][1] >= 1

\* C8 amended: a completed run has recorded exactly steps + 1 entries, for
\* t = 0, 1, .. steps in this order: one after setup, before any decide phase,
\* and one per completed tick.
C8_Amended ==
    pc = "done" =>
        /\ Len(records) = p.steps + 1
        /\ \A k \in 1 .. Len(records) : records[k][1] = k - 1

\* C8 witness: a run of at least two ticks has completed.
C8_Witness == pc = "done" /\ p.steps >= 2 /\ Len(records) >= 3

\* C9: for a fixed configuration including the seed, two runs produce the
\* same (tick, n_adopters) sequence and the same terminal is_adopter vector.
C9_SameSeedSameOutput ==
    (pc = "done" /\ first # <<>>)
        => (records = first.records /\ final = first.final)

\* C10: every run terminates: the run reaches its end, where the time step is
\* the step budget after exactly that many step/update rounds and end() has run
\* once; nothing is called after that.
C10_Terminates ==
    /\ <>(pc = "done")
    /\ [](pc = "done" =>
            /\ t = p.steps
            /\ calls.step = p.steps
            /\ calls.update = p.steps + 1
            /\ calls.end = 1)
    /\ [][pc = "done" => (pc' = "done" /\ calls' = calls)]_vars

\* C10 witness: a run of at least two ticks has stopped after end().
C10_Witness == pc = "done" /\ calls.end = 1 /\ calls.step = p.steps /\ t >= 2

\* C11: an adopter whose neighbour set is empty performs no peer contact in
\* its step: the step completes without raising an error and leaves every
\* other agent's become_adopter and is_adopter unchanged.
C11_IsolatedAdopterNoOp ==
    [][(pc = "step" /\ is_adopter[idx] /\ neighbors[idx] = <<>>)
          => /\ pc' # "error"
             /\ become_adopter' = become_adopter
             /\ is_adopter' = is_adopter]_vars

\* C12: initialization with an invalid configuration fails before any
\* simulation state is created: unless the step budget is positive, there are
\* at least 3 agents, the number of neighbours is even, above 0 and below the
\* number of agents, and the rewiring probability is within [0, 1], the model
\* never gets past its construction, and no graph, agent or record exists.
C12_InvalidRejected ==
    LET valid == /\ p.steps >= 1
                 /\ p.n_agents >= 3
                 /\ p.n_neighbors % 2 = 0
                 /\ p.n_neighbors >= 2
                 /\ p.n_neighbors < p.n_agents
                 /\ p.network_randomness >= 0
                 /\ p.network_randomness <= 100
    IN  ~valid
           => /\ pc = "init"
              /\ graph = {}
              /\ neighbors = <<>>
              /\ is_adopter = <<>>
              /\ become_adopter = <<>>
              /\ records = <<>>

\* C13: in every reachable state, become_adopter and is_adopter are never
\* both true for the same agent.
C13_NeverPendingAndAdopter ==
    \A i \in DOMAIN is_adopter : ~(become_adopter[i] /\ is_adopter[i])

\* C13 witness: an adopter has contacted an adopter next to it, and another
\* agent is pending in the same tick.
C13_Witness ==
    /\ pc = "step"
    /\ \E i \in visited :
          /\ snapshot[i]
          /\ \A j \in Agents : {i, j} \in graph => snapshot[j]
    /\ \E j \in DOMAIN become_adopter : become_adopter[j]

\* C14: after every commit phase (all agents' update for a tick) become_adopter
\* is false for every agent, promoted in that tick or not: no pending flag is
\* carried into the next tick's decide phase.
C14_NoFlagAfterCommit ==
    ((pc = "update" /\ idx = p.n_agents)
        \/ (pc = "step" /\ idx = 0)
        \/ pc \in {"end", "done"})
    => \A i \in DOMAIN become_adopter : ~become_adopter[i]

\* C14 witness: a commit phase has just ended in which some agents were
\* promoted and others were not.
C14_Witness ==
    /\ pc = "update" /\ idx = p.n_agents /\ t >= 1
    /\ n_adopters > records[Len(records)][2]
    /\ \E i \in DOMAIN is_adopter : ~is_adopter[i]

\* C15: in each commit phase, the agents whose is_adopter changes from false
\* to true are exactly those whose become_adopter was true at the end of phase
\* 1, and n_adopters increases by exactly the size of that set.  At every point
\* of the commit phase: the agents already updated are adopters if and only if
\* they were adopters before or were pending, the others are as they were and
\* carry the flag if and only if they were pending, and n_adopters has grown by
\* the number of pending agents already updated.
C15_CommitPromotesPending ==
    pc = "update" =>
        LET before == IF records = <<>> THEN 0 ELSE records[Len(records)][2]
            done == {i \in Agents : i < idx}
        IN  /\ \A i \in done : is_adopter[i] <=> (snapshot[i] \/ i \in pending)
            /\ \A i \in Agents \ done :
                  /\ is_adopter[i] <=> snapshot[i]
                  /\ become_adopter[i] <=> i \in pending
            /\ n_adopters = before + Cardinality(pending \cap done)

\* C15 witness: a commit phase has ended in a tick that began with an adopter;
\* one agent was pending and another non-adopter was not.
C15_Witness ==
    /\ pc = "update" /\ idx = p.n_agents /\ t >= 2
    /\ Cardinality(pending) = 1
    /\ \E i \in Agents : snapshot[i]
    /\ \E i \in Agents : ~is_adopter[i]

\* C16: setting the pending flag is idempotent: an agent whose adopt() has
\* succeeded several times in the same tick (more than one peer contact, or a
\* peer contact and its own advertisement draw) is in the same state as one
\* for which it has succeeded once, pending until its update and an adopter
\* with no flag from then on, and adds exactly 1 to n_adopters: once the
\* commit is over, n_adopters has grown by the number of agents targeted.
C16_PendingIdempotent ==
    LET committed(j) == (pc = "update" /\ j < idx) \/ pc \in {"end", "done"}
        once == expected \ twice
        AsTargeted(j) == IF committed(j)
                         THEN is_adopter[j] /\ ~become_adopter[j]
                         ELSE ~is_adopter[j] /\ become_adopter[j]
    IN  /\ \A j \in twice : AsTargeted(j)
        /\ \A j \in once : AsTargeted(j)
        /\ (pc = "update" /\ idx = p.n_agents /\ t >= 1)
              => n_adopters = records[Len(records)][2] + Cardinality(expected)

\* C16 witness: a tick has been committed in which adopt() succeeded more
\* than once for some agent, and once for another.
C16_Witness ==
    /\ pc = "update" /\ idx = p.n_agents /\ t >= 1
    /\ twice # {}
    /\ expected \ twice # {}

\* C17 as stated: during phase 1 an agent's step writes only that agent's own
\* become_adopter flag, never another agent's.
C17_Original ==
    [][pc = "step"
          => \A j \in Agents :
                become_adopter'[j] # become_adopter[j] => j = idx]_vars

\* C17 amended: during phase 1 the step of a non-adopter writes no
\* become_adopter flag but its own, and the step of an adopter writes none but
\* those of its neighbours, never its own; no step reads a flag: the flags a
\* step sets are the same whatever the flags were before it.
C17_Amended ==
    /\ [][pc = "step"
            => LET changed == {j \in Agents : become_adopter'[j] # become_adopter[j]}
               IN  IF is_adopter[idx]
                   THEN changed \subseteq {j \in Agents : {idx, j} \in graph} \ {idx}
                   ELSE changed \subseteq {idx}]_vars
    /\ [](pc = "step"
            => \A raws \in [1 .. DrawsOf(idx) -> Raws] :
                  Drawn(idx, raws)
                     => LET clean == [AgentState EXCEPT
                                         !.become_adopter = [i \in Agents |-> FALSE]]
                            from_state == ConsumerAgentStep(AgentState, idx, raws).st
                            from_clean == ConsumerAgentStep(clean, idx, raws).st
                        IN  \A j \in Agents :
                               from_state.become_adopter[j]
                                  <=> (become_adopter[j] \/ from_clean.become_adopter[j]))

\* C17 witness: an agent that has not made its step in this tick is pending:
\* its flag was set by the step of an adopter next to it.
C17_Witness ==
    /\ pc = "step"
    /\ \E j \in Agents \ visited :
          /\ become_adopter[j]
          /\ \E i \in visited : snapshot[i] /\ {i, j} \in graph

\* C18: immediately after setup every agent is a non-adopter with
\* become_adopter false and n_adopters is 0; update() then runs once, before
\* any step(), and the value recorded at t = 0 is 0.
C18_StartsWithNoAdopter ==
    /\ (pc = "update" /\ t = 0 /\ idx = 0)
          => /\ \A i \in Agents : ~is_adopter[i] /\ ~become_adopter[i]
             /\ n_adopters = 0
             /\ records = <<>>
    /\ records # <<>>
          => /\ records[1] = <<0, 0>>
             /\ \A i \in Agents : n_update[i] >= 1
    /\ records = <<>> => \A i \in DOMAIN n_step : n_step[i] = 0

\* C18 witness: the first record has been made and no agent has made a step.
C18_Witness ==
    /\ pc = "step" /\ t = 1 /\ idx = 0
    /\ Len(records) = 1
    /\ \A i \in Agents : n_step[i] = 0 /\ n_update[i] = 1

\* C19: on the ring lattice (n_neighbors = 2, no rewiring; n_agents is
\* MaxAgents, that is 4) with no initial adopters, ad_effectiveness 1.0 for
\* agent 0 and 0 for every other agent, and steps = 1: after the one tick agent
\* 0 is the only adopter and n_adopters is 1, whatever the draws were.
C19_OnlyAgentZeroAdopts ==
    (/\ pc \in {"end", "done"}
     /\ p.steps = 1 /\ p.n_neighbors = 2 /\ p.network_randomness = 0
     /\ \A i \in Agents : ~snapshot[i]
     /\ \A i \in Agents : ad_effectiveness[i] = (IF i = 0 THEN 100 ELSE 0))
    => /\ \A i \in Agents : is_adopter[i] <=> i = 0
       /\ n_adopters = 1

\* C19 witness: such a run of 4 agents has completed its tick, and agent 0 has
\* adopted.
C19_Witness ==
    /\ pc = "done" /\ t = 1
    /\ p.n_agents = 4 /\ p.n_neighbors = 2 /\ p.network_randomness = 0
    /\ \A i \in Agents : ~snapshot[i]
    /\ \A i \in Agents : ad_effectiveness[i] = (IF i = 0 THEN 100 ELSE 0)
    /\ final[0]

\* C20: with ad_effectiveness 0 for all agents and exactly one agent made an
\* adopter beforehand, with contact_rate 1, whose chosen neighbour is a
\* non-adopter with adoption_fraction 1.0: after one tick exactly that
\* neighbour has become an adopter and n_adopters has increased by exactly 1.
C20_ChosenNeighbourAdopts ==
    \A a, b \in Agents :
        (/\ pc \in {"end", "done"}
         /\ t = 1
         /\ \A i \in Agents : ad_effectiveness[i] = 0
         /\ \A i \in Agents : snapshot[i] <=> i = a
         /\ contact_rate[a] = 1
         /\ chosen[a] = <<b>>
         /\ ~snapshot[b]
         /\ adoption_fraction[b] = 100)
        => /\ {i \in Agents : is_adopter[i] /\ ~snapshot[i]} = {b}
           /\ n_adopters = records[1][2] + 1

\* C20 witness: such a tick has been committed; the adopter's other neighbour
\* has adoption_fraction 1.0 as well and was not chosen.
C20_Witness ==
    /\ pc = "done" /\ t = 1
    /\ \A i \in Agents : ad_effectiveness[i] = 0
    /\ \E a, b \in Agents :
          /\ \A i \in Agents : snapshot[i] <=> i = a
          /\ chosen[a] = <<b>>
          /\ adoption_fraction[b] = 100
          /\ final[b]
          /\ \E c \in Agents \ {a, b} :
                {a, c} \in graph /\ adoption_fraction[c] = 100 /\ ~final[c]

\* C21: in each tick every agent that is a non-adopter at tick start makes
\* exactly one advertisement draw in its own step, and that draw sets its
\* become_adopter if and only if the sample is strictly less than its
\* ad_effectiveness (0 never succeeds, 1.0 always does); a non-adopter makes
\* no peer contact.  For the agent about to make its step, whatever the values
\* model.random returns: one value is taken, no other agent's flag and no
\* is_adopter changes, and its own flag is set exactly when the sample is below
\* its ad_effectiveness.  For the agents that have made their step of the
\* tick: each made one step, took one value, picked no partner, carries the
\* flag if its ad_effectiveness is 1.0 and, if it is 0, only when an adopter
\* picked it.
C21_AdvertisementDraw ==
    /\ (pc = "step" /\ ~snapshot[idx])
          => \A raws \in [1 .. DrawsOf(idx) -> Raws] :
                LET r == ConsumerAgentStep(AgentState, idx, raws)
                IN  /\ r.used = 1
                    /\ r.st.is_adopter = is_adopter
                    /\ \A j \in Agents :
                          r.st.become_adopter[j]
                             <=> \/ become_adopter[j]
                                 \/ (j = idx /\ 100 * raws[1]
                                                  < ad_effectiveness[idx] * RawRes)
    /\ (pc = "step" \/ (pc = "update" /\ idx = 0))
          => \A i \in visited :
                ~snapshot[i]
                   => /\ n_step[i] = t
                      /\ draws[i] = 1
                      /\ chosen[i] = <<>>
                      /\ ad_effectiveness[i] = 100 => become_adopter[i]
                      /\ (ad_effectiveness[i] = 0 /\ become_adopter[i])
                            => \E a \in visited :
                                  snapshot[a] /\ chosen[a] = <<i>>

\* C21 witness: two non-adopters have made their step of the tick, one with
\* ad_effectiveness 1.0, now pending, one with ad_effectiveness 0, not pending,
\* and a third is about to.
C21_Witness ==
    /\ pc = "step"
    /\ ~snapshot[idx]
    /\ \E i, j \in visited :
          /\ ~snapshot[i] /\ ad_effectiveness[i] = 100 /\ become_adopter[i]
          /\ ~snapshot[j] /\ ad_effectiveness[j] = 0 /\ ~become_adopter[j]

\* C22: in each tick every agent that is an adopter at tick start makes
\* exactly contact_rate peer-contact attempts and no advertisement draw; each
\* attempt picks a partner from the adopter's own neighbour set (the same
\* neighbour may be picked in several attempts), and only a partner that is a
\* non-adopter per the tick-start snapshot gets a draw, which sets the partner's
\* become_adopter if and only if the sample is strictly less than the partner's
\* adoption_fraction.  For the adopters that have made their step of the tick:
\* each made one step, picked contact_rate partners, all of them its neighbours
\* in the graph, and took one value per pick and one more per pick of a
\* non-adopter, none else; and with no advertisement, the agents pending are
\* the non-adopters with adoption_fraction 1.0 that one of them picked.
C22_PeerContacts ==
    (pc = "step" \/ (pc = "update" /\ idx = 0 /\ t >= 1))
        => LET callers == {a \in visited : snapshot[a]}
           IN  /\ \A a \in callers :
                     /\ n_step[a] = t
                     /\ Len(chosen[a]) = contact_rate[a]
                     /\ \A k \in 1 .. Len(chosen[a]) :
                           chosen[a][k] # a /\ {a, chosen[a][k]} \in graph
                     /\ draws[a] = contact_rate[a]
                                     + Cardinality({k \in 1 .. Len(chosen[a]) :
                                                       ~snapshot[chosen[a][k]]})
               /\ \A j \in Agents :
                     become_adopter[j]
                        <=> /\ ~snapshot[j]
                            /\ adoption_fraction[j] = 100
                            /\ \E a \in callers :
                                  \E k \in 1 .. Len(chosen[a]) : chosen[a][k] = j

\* C22 witness: the step phase has ended; an adopter picked the same
\* non-adopter neighbour twice and made it pending, another adopter picked an
\* adopter, and a non-adopter with adoption_fraction 0 was picked and is not
\* pending.
C22_Witness ==
    /\ pc = "update" /\ idx = 0 /\ t = 1
    /\ \E a, b \in Agents :
          snapshot[a] /\ ~snapshot[b] /\ chosen[a] = <<b, b>> /\ become_adopter[b]
    /\ \E a \in Agents :
          snapshot[a] /\ \E k \in 1 .. Len(chosen[a]) : snapshot[chosen[a][k]]
    /\ \E a, b \in Agents :
          /\ snapshot[a] /\ ~snapshot[b] /\ adoption_fraction[b] = 0
          /\ \E k \in 1 .. Len(chosen[a]) : chosen[a][k] = b

\* C23: adoption does not chain within a tick: an agent whose pending flag is
\* set during tick t performs no peer contact in tick t, whatever the visiting
\* order, so every agent that becomes an adopter at the commit of tick t either
\* succeeded on its own advertisement draw (its ad_effectiveness is 1.0) or has
\* a neighbour that was already an adopter at the start of tick t.
C23_NoChaining ==
    /\ (pc = "step" \/ (pc = "update" /\ idx = 0))
          => \A j \in visited :
                become_adopter[j] => (chosen[j] = <<>> /\ draws[j] = 1)
    /\ pc \in {"update", "step", "end", "done"}
          => \A j \in Agents :
                (is_adopter[j] /\ ~snapshot[j])
                   => \/ ad_effectiveness[j] = 100
                      \/ \E i \in Agents : snapshot[i] /\ {i, j} \in graph

\* C23 witness: an adopter and the neighbour it made pending have both made
\* their step, in one order or the other, and a neighbour of the pending agent
\* that would adopt on contact has not been made pending.
C23_Witness ==
    /\ pc = "step"
    /\ \E a, b \in visited :
          /\ visited = {a, b}
          /\ a > b
          /\ snapshot[a] /\ chosen[a] = <<b>>
          /\ ad_effectiveness[b] = 0 /\ become_adopter[b]
          /\ \E c \in Agents \ visited :
                /\ {b, c} \in graph
                /\ ~snapshot[c] /\ ~become_adopter[c]
                /\ adoption_fraction[c] = 100
                /\ \A i \in Agents : {i, c} \in graph => ~snapshot[i]

\* C24: after setup, no step, adopt or update changes any agent's neighbour
\* set, ad_effectiveness, adoption_fraction or contact_rate, and the number of
\* agents stays equal to n_agents for the whole run.
C24_StaticAttributes ==
    /\ [](pc # "init"
            => /\ DOMAIN is_adopter = Agents
               /\ DOMAIN become_adopter = Agents
               /\ DOMAIN neighbors = Agents
               /\ Cardinality(DOMAIN is_adopter) = p.n_agents)
    /\ [][pc # "init"
            => /\ graph' = graph
               /\ neighbors' = neighbors
               /\ ad_effectiveness' = ad_effectiveness
               /\ adoption_fraction' = adoption_fraction
               /\ contact_rate' = contact_rate
               /\ p' = p
               /\ DOMAIN is_adopter' = DOMAIN is_adopter]_vars

\* C24 witness: a run of two ticks on a rewired graph has completed, with
\* agents adopting in the first tick and in the second.
C24_Witness ==
    /\ pc = "done" /\ t = 2
    /\ graph # RingLattice(p.n_agents, p.n_neighbors)
    /\ records[2][2] >= 1
    /\ records[3][2] > records[2][2]
    /\ \E j \in Agents : final[j] /\ ~snapshot[j]

\* C25: the per-agent is_adopter vector recorded by MarketModel.end at
\* termination is consistent with the time series: the number of agents
\* recorded with is_adopter true equals the last recorded n_adopters, and no
\* agent has become_adopter true at that point.
C25_FinalVectorConsistent ==
    pc = "done"
        => /\ DOMAIN final = Agents
           /\ Count(final) = records[Len(records)][2]
           /\ \A i \in Agents : ~become_adopter[i]

\* C25 witness: a run has ended with adopters and non-adopters recorded, some
\* of them promoted in the last tick.
C25_Witness ==
    /\ pc = "done" /\ t = 2
    /\ Count(final) >= 1
    /\ Count(final) < p.n_agents
    /\ \E j \in Agents : final[j] /\ ~snapshot[j]

\* C26: saturation is absorbing: once every agent is an adopter, nothing that
\* follows changes any agent's is_adopter or become_adopter, and n_adopters
\* stays equal to n_agents; every peer contact finds an adopter partner and
\* makes no draw: whatever model.random returns, the step of the next agent
\* takes one value per contact, for the pick, and leaves the agents as they
\* are.
C26_SaturationAbsorbing ==
    /\ [][(pc # "init" /\ \A i \in Agents : is_adopter[i])
            => /\ is_adopter' = is_adopter
               /\ become_adopter' = become_adopter
               /\ n_adopters' = n_adopters]_vars
    /\ []((pc # "init" /\ \A i \in Agents : is_adopter[i])
            => /\ n_adopters = p.n_agents
               /\ \A i \in Agents : ~become_adopter[i]
               /\ pc = "step"
                     => \A raws \in [1 .. DrawsOf(idx) -> Raws] :
                           LET r == ConsumerAgentStep(AgentState, idx, raws)
                           IN  r.used = contact_rate[idx] /\ r.st = AgentState)

\* C26 witness: every agent had adopted by the end of the first tick, and the
\* run went through a second tick.
C26_Witness ==
    /\ pc = "done" /\ t = 2
    /\ records[2][2] = p.n_agents
    /\ \A i \in Agents : snapshot[i] /\ n_step[i] = 2 /\ n_update[i] = 3

\* C27: without advertisement there is no spontaneous adoption: if
\* ad_effectiveness is 0 for every agent and no agent is an adopter, then
\* n_adopters stays 0 and no become_adopter flag is ever set for the rest of
\* the run: in such a state no flag is set, n_adopters and every recorded value
\* are 0, and the state that follows is such a state again.
C27_NoSpontaneousAdoption ==
    /\ []((pc # "init"
             /\ \A i \in Agents : ad_effectiveness[i] = 0 /\ ~is_adopter[i])
            => /\ \A i \in Agents : ~become_adopter[i]
               /\ n_adopters = 0
               /\ \A k \in 1 .. Len(records) : records[k][2] = 0)
    /\ [][(pc # "init"
             /\ \A i \in Agents : ad_effectiveness[i] = 0 /\ ~is_adopter[i])
            => /\ \A i \in Agents : ~is_adopter'[i] /\ ~become_adopter'[i]
               /\ n_adopters' = 0]_vars

\* C27 witness: a run of two ticks that began without adopters has ended
\* without any, though every agent would adopt on contact.
C27_Witness ==
    /\ pc = "done" /\ t = 2
    /\ \A i \in Agents :
          /\ ad_effectiveness[i] = 0 /\ adoption_fraction[i] = 100
          /\ ~final[i] /\ n_step[i] = 2
    /\ records = <<(<<0, 0>>), (<<1, 0>>), (<<2, 0>>)>>

\* C28: word-of-mouth growth per tick is bounded by the contacts made: when
\* ad_effectiveness is 0 for every agent, the increase of n_adopters in one
\* tick is at most the sum of contact_rate over the agents that were adopters
\* at the start of that tick, that is the number of contact attempts of the
\* tick: no more agents are pending in the decide phase, n_adopters has grown
\* by no more in the commit phase, and the value recorded for the tick exceeds
\* the previous one by no more.
C28_GrowthBoundedByContacts ==
    LET attempts == {x \in Agents \X (1 .. MaxContacts) :
                        snapshot[x[1]] /\ x[2] <= contact_rate[x[1]]}
        last == records[Len(records)][2]
    IN  (t >= 1 /\ \A i \in Agents : ad_effectiveness[i] = 0)
           => /\ pc = "step"
                    => Cardinality({j \in Agents : become_adopter[j]})
                          <= Cardinality(attempts)
              /\ pc = "update"
                    => /\ n_adopters - last <= Cardinality(attempts)
                       /\ n_adopters - last
                              + Cardinality({j \in Agents : become_adopter[j]})
                             <= Cardinality(attempts)
              /\ pc \in {"end", "done"}
                    => last - records[Len(records) - 1][2] <= Cardinality(attempts)

\* C28 witness: a tick has been committed in which the one adopter made two
\* contacts, with two neighbours, and both adopted: the bound is attained.
C28_Witness ==
    /\ pc = "update" /\ idx = p.n_agents /\ t >= 1
    /\ \A i \in Agents : ad_effectiveness[i] = 0
    /\ \E a, b, c \in Agents :
          /\ b # c
          /\ \A i \in Agents : snapshot[i] <=> i = a
          /\ contact_rate[a] = 2
          /\ chosen[a] = <<b, c>>
          /\ is_adopter[b] /\ is_adopter[c]
    /\ n_adopters - records[Len(records)][2] = 2

====
